---- MODULE Spec2Model ----
(***************************************************************************)
(* q2-fondue, q2_fondue/sequences.py: get_sequences and its helpers.       *)
(*                                                                         *)
(* Strings are sequences of character codes, so suffix tests, suffix       *)
(* stripping and the lexicographic order of sorted() are computed and not  *)
(* assumed.  A file is a sequence of lines (each without its terminator).  *)
(* The scratch directory and the two output containers are functions from  *)
(* file names to file contents.                                            *)
(***************************************************************************)
EXTENDS Integers, Sequences, FiniteSets, TLC

VARIABLES
    sample_ids,        \* get_sequences argument: list of accessions
    general_retries,   \* get_sequences argument: retry budget
    tool,              \* environment: what fasterq-dump writes per accession
    flaky,             \* environment: whether an invocation can fail transiently
    gzip_ok,           \* environment: whether the gzip pass compresses the files
    pc,                \* position of get_sequences
    idx,               \* position of the for loop of _run_fasterq_dump_for_all
    retries,           \* local of _run_cmd_fasterq
    result,            \* local of _run_cmd_fasterq: last CompletedProcess
    calls,             \* history: invocations made by the current call
    firstOk,           \* history: first invocation after which a file existed
    dir,               \* the scratch directory (tmpdirname)
    listed,            \* the names os.listdir gave the renaming pass
    ls_single_files,   \* returned by _process_downloaded_sequences
    ls_paired_files,   \* returned by _process_downloaded_sequences
    casava_out_single, \* output container
    casava_out_double, \* output container
    error,             \* the exception that ended the run, if any
    run,               \* 1 for the first run, 2 for the rerun on a permutation
    prev               \* outcome of the first run

vars == <<sample_ids, general_retries, tool, flaky, gzip_ok, pc, idx, retries, result,
          calls, firstOk, dir, listed, ls_single_files, ls_paired_files,
          casava_out_single, casava_out_double, error, run, prev>>

-----------------------------------------------------------------------------
(* Bounds *)

MaxIds == 2
MaxRetries == 1
MaxLines == 5

-----------------------------------------------------------------------------
(* Strings *)

S1 == <<83, 49>>
S10 == <<83, 49, 48>>
AccUniverse == {S1, S10}

KSingle == <<>>
KFwd == <<95, 49>>
KRev == <<95, 50>>
Kinds == {KSingle, KFwd, KRev}

DotFastq == <<46, 102, 97, 115, 116, 113>>
DotGz == <<46, 103, 122>>
Fwd_fastq_gz == KFwd \o DotFastq \o DotGz
Rev_fastq_gz == KRev \o DotFastq \o DotGz
fastq_gz == DotFastq \o DotGz
CasavaR1 == <<95, 48, 48, 95, 76, 48, 48, 49, 95, 82, 49, 95, 48, 48, 49>> \o fastq_gz
CasavaR2 == <<95, 48, 48, 95, 76, 48, 48, 49, 95, 82, 50, 95, 48, 48, 49>> \o fastq_gz
xxx == <<120, 120, 120>>
new_empty_name == xxx \o CasavaR1
fwd_empty_name == xxx \o CasavaR1
\* variant: the reverse placeholder gets the forward name
rev_empty_name_copied == xxx \o CasavaR1

rev_empty_name == xxx \o CasavaR2

Whitespace == {9, 10, 11, 12, 13, 32}

\* str.endswith
EndsWith(s, suffix) ==
    /\ Len(s) >= Len(suffix)
    /\ SubSeq(s, Len(s) - Len(suffix) + 1, Len(s)) = suffix

None == <<-1>>

\* re.search(r'(.*)<suffix>$', s): the match's group(1), or None
ReSearch(s, suffix) ==
    IF EndsWith(s, suffix) THEN SubSeq(s, 1, Len(s) - Len(suffix)) ELSE None

\* comparison of two str by code points, as sorted() uses it
RECURSIVE StrLess(_, _)
StrLess(a, b) ==
    IF b = <<>> THEN FALSE
    ELSE IF a = <<>> THEN TRUE
    ELSE IF Head(a) # Head(b) THEN Head(a) < Head(b)
    ELSE StrLess(Tail(a), Tail(b))

RECURSIVE Insert(_, _)
Insert(x, s) ==
    IF s = <<>> THEN <<x>>
    ELSE IF StrLess(x, Head(s)) THEN <<x>> \o s
    ELSE <<Head(s)>> \o Insert(x, Tail(s))

RECURSIVE Sorted(_)
Sorted(s) == IF s = <<>> THEN <<>> ELSE Insert(Head(s), Sorted(Tail(s)))

RECURSIVE LStrip(_)
LStrip(s) ==
    IF s # <<>> /\ Head(s) \in Whitespace THEN LStrip(Tail(s)) ELSE s

RECURSIVE RStrip(_)
RStrip(s) ==
    IF s # <<>> /\ s[Len(s)] \in Whitespace
    THEN RStrip(SubSeq(s, 1, Len(s) - 1)) ELSE s

\* str.strip
Strip(s) == RStrip(LStrip(s))

Range(s) == {s[k] : k \in DOMAIN s}

EmptyDir == [n \in {} |-> <<>>]

\* every ordering of the elements of a set
RECURSIVE Orderings(_)
Orderings(S) ==
    IF S = {} THEN {<<>>}
    ELSE UNION {{<<x>> \o s : s \in Orderings(S \ {x})} : x \in S}

\* os.listdir: the names of directory d in any order
Listings(d) == Orderings(DOMAIN d)

-----------------------------------------------------------------------------
(* The external tool and the files it leaves *)

\* text of the file fasterq-dump writes for one read file: n lines, each
\* ended by a newline, every other line padded with blanks
RECURSIVE TextOf(_, _)
TextOf(kind, n) ==
    IF n = 0 THEN <<>>
    ELSE TextOf(kind, n - 1) \o
         (IF n % 2 = 1 THEN <<32>> \o kind \o <<64 + n, 9, 10>>
                       ELSE kind \o <<64 + n, 10>>)

\* the scratch directory after one invocation that writes the files `kinds`
RunTool(d, acc, kinds, nlines) ==
    LET new == {acc \o k \o DotFastq : k \in kinds}
        textOf(n) == TextOf(SubSeq(n, Len(acc) + 1, Len(n) - Len(DotFastq)),
                            nlines[SubSeq(n, Len(acc) + 1, Len(n) - Len(DotFastq))])
    IN  [n \in DOMAIN d \cup new |-> IF n \in new THEN textOf(n) ELSE d[n]]

\* os.path.isfile
IsFile(d, name) == name \in DOMAIN d

-----------------------------------------------------------------------------
(* _run_cmd_fasterq *)

\* the loop condition
LoopCond(r) == r >= 0

\* the existence test made after each invocation
Downloaded(d, acc) ==
    IsFile(d, acc \o DotFastq) \/ IsFile(d, acc \o KFwd \o DotFastq)

\* variant: the loop is not left when the file is there
NextRetriesNoStop(r, found) == r - 1

\* the new value of retries after an invocation
NextRetries(r, found) == IF ~found THEN r - 1 ELSE -1

NoResult == [acc |-> <<>>, attempt |-> 0, stderr |-> "unbound"]

-----------------------------------------------------------------------------
(* _run_fasterq_dump_for_all *)

\* variant: the test looks for the files of the accession only
NothingDownloadedForAcc(d, acc) == ~Downloaded(d, acc)

\* len(os.listdir(tmpdirname)) == 0
NothingDownloaded(d, acc) == Cardinality(DOMAIN d) = 0

NoError == [type |-> "none", acc |-> <<>>, stderr |-> NoResult]
ValueError(acc, res) == [type |-> "ValueError", acc |-> acc, stderr |-> res]
AttributeError == [type |-> "AttributeError", acc |-> <<>>, stderr |-> NoResult]
IndexError == [type |-> "IndexError", acc |-> <<>>, stderr |-> NoResult]
FileNotFoundError == [type |-> "FileNotFoundError", acc |-> <<>>, stderr |-> NoResult]

-----------------------------------------------------------------------------
(* _process_downloaded_sequences *)

\* gzip -r: every file of the directory gets the .gz suffix
Gzip(d) ==
    [n \in {m \o DotGz : m \in DOMAIN d} |-> d[SubSeq(n, 1, Len(n) - Len(DotGz))]]

\* os.rename: the destination is replaced when it exists
Rename(d, old, new) ==
    [n \in (DOMAIN d \ {old}) \cup {new} |-> IF n = new THEN d[old] ELSE d[n]]

\* variant: the plain suffix is tested first
ClassifyPlainFirst(filename) ==
    IF EndsWith(filename, fastq_gz)
    THEN [acc |-> ReSearch(filename, fastq_gz), suffix |-> CasavaR1, paired |-> FALSE]
    ELSE IF EndsWith(filename, Fwd_fastq_gz)
    THEN [acc |-> ReSearch(filename, Fwd_fastq_gz), suffix |-> CasavaR1, paired |-> TRUE]
    ELSE [acc |-> ReSearch(filename, Rev_fastq_gz), suffix |-> CasavaR2, paired |-> TRUE]

\* the branch taken for one file name: the accession, the new name and the
\* list the new name is appended to
Classify(filename) ==
    IF EndsWith(filename, Fwd_fastq_gz)
    THEN [acc |-> ReSearch(filename, Fwd_fastq_gz), suffix |-> CasavaR1, paired |-> TRUE]
    ELSE IF EndsWith(filename, Rev_fastq_gz)
    THEN [acc |-> ReSearch(filename, Rev_fastq_gz), suffix |-> CasavaR2, paired |-> TRUE]
    ELSE [acc |-> ReSearch(filename, fastq_gz), suffix |-> CasavaR1, paired |-> FALSE]

\* the for loop over the listing, from position k on
RECURSIVE RenamePass(_, _, _)
RenamePass(order, k, st) ==
    IF k > Len(order) \/ st.error # NoError THEN st
    ELSE LET filename == order[k]
             c == Classify(filename)
             new_name == c.acc \o c.suffix
         IN  IF c.acc = None
             THEN [st EXCEPT !.error = AttributeError]
             ELSE IF ~IsFile(st.dir, filename)
             THEN [st EXCEPT !.error = FileNotFoundError]
             ELSE RenamePass(order, k + 1,
                    [error |-> NoError,
                     dir |-> Rename(st.dir, filename, new_name),
                     single |-> IF c.paired THEN st.single
                                ELSE Append(st.single, new_name),
                     paired |-> IF c.paired THEN Append(st.paired, new_name)
                                ELSE st.paired])

-----------------------------------------------------------------------------
(* _read_fastq_seqs *)

\* iteration over a text file: the lines, each with its terminator
RECURSIVE SplitLines(_)
SplitLines(raw) ==
    IF raw = <<>> THEN <<>>
    ELSE LET ends == {k \in 1..Len(raw) : raw[k] = 10} \cup {Len(raw)}
             nl == CHOOSE k \in ends : \A j \in ends : k <= j
         IN  <<SubSeq(raw, 1, nl)>> \o SplitLines(SubSeq(raw, nl + 1, Len(raw)))

\* itertools.zip_longest(*[fh] * 4): groups of 4 lines, the last one filled
\* with None
ZipLongest4(lines) ==
    [g \in 1..((Len(lines) + 3) \div 4) |->
        [j \in 1..4 |-> IF 4 * (g - 1) + j <= Len(lines)
                        THEN lines[4 * (g - 1) + j] ELSE None]]

\* variant: the field is kept as read
StripFieldKept(field) == field

\* field.strip() of one group; None has no strip()
StripField(field) == Strip(field)

\* the generator: the tuples it yields and whether it then raises
ReadFastqSeqs(raw) ==
    LET groups == ZipLongest4(SplitLines(raw))
        bad == {g \in DOMAIN groups : None \in Range(groups[g])}
        good == IF bad = {} THEN Len(groups)
                ELSE (CHOOSE g \in bad : \A h \in bad : g <= h) - 1
    IN  [tuples |-> [g \in 1..good |-> [j \in 1..4 |-> StripField(groups[g][j])]],
         raised |-> bad # {}]

-----------------------------------------------------------------------------
(* _write2casava_dir_single and _write2casava_dir_double *)

\* ('\n'.join(rec) + '\n') for each of the first n records
RECURSIVE EncodeRecs(_, _)
EncodeRecs(tuples, n) ==
    IF n = 0 THEN <<>>
    ELSE LET rec == tuples[n]
         IN  EncodeRecs(tuples, n - 1) \o
             rec[1] \o <<10>> \o rec[2] \o <<10>> \o rec[3] \o <<10>> \o rec[4] \o <<10>>

\* the single writer: the files written and the exception, if any
Write2CasavaSingle(d, ls_files_2_consider) ==
    LET names == {f \in DOMAIN d : f \in Range(ls_files_2_consider)}
        read(f) == ReadFastqSeqs(d[f])
    IN  [error |-> IF \E f \in names : read(f).raised THEN AttributeError ELSE NoError,
         out |-> [f \in names |-> EncodeRecs(read(f).tuples, Len(read(f).tuples))]]

\* zip(fwd, rev): the number of pairs produced and whether a reader raised;
\* fwd is pulled first, rev only when fwd yielded
ZipRecs(fwd, rev) ==
    LET nf == Len(fwd.tuples)
        nr == Len(rev.tuples)
    IN  IF nf <= nr
        THEN [n |-> nf, raised |-> fwd.raised]
        ELSE [n |-> nr, raised |-> rev.raised]

\* variant: the list is used in the order given
FilesUnsorted(ls_files_2_consider) == ls_files_2_consider

\* the list the paired writer iterates over
FilesSorted(ls_files_2_consider) == Sorted(ls_files_2_consider)

\* the loop of the paired writer from index i (0-based, step 2)
RECURSIVE WritePairs(_, _, _, _)
WritePairs(d, ls_files_sorted, i, st) ==
    IF i >= Len(ls_files_sorted) \/ st.error # NoError THEN st
    ELSE IF i + 1 >= Len(ls_files_sorted)
    THEN [st EXCEPT !.error = IndexError]
    ELSE LET filename_1 == ls_files_sorted[i + 1]
             filename_2 == ls_files_sorted[i + 2]
         IN  IF ~IsFile(d, filename_1) \/ ~IsFile(d, filename_2)
             THEN [st EXCEPT !.error = FileNotFoundError]
             ELSE LET fwd == ReadFastqSeqs(d[filename_1])
                      rev == ReadFastqSeqs(d[filename_2])
                      z == ZipRecs(fwd, rev)
                      written == (filename_1 :> EncodeRecs(fwd.tuples, z.n)) @@
                                 (filename_2 :> EncodeRecs(rev.tuples, z.n)) @@ st.out
                  IN  WritePairs(d, ls_files_sorted, i + 2,
                                 [error |-> IF z.raised THEN AttributeError ELSE NoError,
                                  out |-> written])

Write2CasavaDouble(d, ls_files_2_consider) ==
    WritePairs(d, FilesSorted(ls_files_2_consider), 0,
               [error |-> NoError, out |-> EmptyDir])

-----------------------------------------------------------------------------
(* get_sequences as a state machine *)

\* lists of at most n accessions
IdLists(n) == UNION {[1..k -> AccUniverse] : k \in 0..n}

\* what the tool can leave for one accession: any subset of <acc>.fastq,
\* <acc>_1.fastq and <acc>_2.fastq, each with a number of lines of lineSet
Behaviours(lineSet) ==
    {[kinds |-> K, nlines |-> [k \in Kinds |-> IF k \in K THEN f[k] ELSE 0]] :
        K \in SUBSET Kinds, f \in [Kinds -> lineSet]}

Idle == [kinds |-> {}, nlines |-> [k \in Kinds |-> 0]]

\* the state at the call of get_sequences, for given sets of inputs and
\* environments; only the accessions of the list have a tool behaviour
InitWith(idLists, retrySet, flakySet, gzipSet, lineSet) ==
    /\ sample_ids \in idLists
    /\ general_retries \in retrySet
    /\ flaky \in flakySet
    /\ gzip_ok \in gzipSet
    /\ tool \in {[a \in AccUniverse |-> IF a \in Range(sample_ids) THEN g[a] ELSE Idle] :
                    g \in [Range(sample_ids) -> Behaviours(lineSet)]}
    /\ pc = "for"
    /\ idx = 1
    /\ retries = 0
    /\ result = NoResult
    /\ calls = 0
    /\ firstOk = 0
    /\ dir = EmptyDir
    /\ listed = {}
    /\ ls_single_files = <<>>
    /\ ls_paired_files = <<>>
    /\ casava_out_single = EmptyDir
    /\ casava_out_double = EmptyDir
    /\ error = NoError
    /\ run = 1
    /\ prev = [failed |-> FALSE, single |-> {}, double |-> {}]

\* one record of 4 lines per file
OneRecord == {4}

Init == InitWith(IdLists(MaxIds), 0..MaxRetries, {TRUE}, BOOLEAN, OneRecord)

acc == sample_ids[idx]

fetchVars == <<retries, result, calls, firstOk>>
processVars == <<listed, ls_single_files, ls_paired_files>>
outVars == <<casava_out_single, casava_out_double>>
inputVars == <<sample_ids, general_retries, tool, flaky, gzip_ok>>
runVars == <<run, prev>>

\* _run_fasterq_dump_for_all, line 57-58: the next accession is handed to
\* _run_cmd_fasterq
ForNext ==
    /\ pc = "for"
    /\ idx <= Len(sample_ids)
    /\ pc' = "while"
    /\ retries' = general_retries
    /\ result' = NoResult
    /\ calls' = 0
    /\ firstOk' = 0
    /\ UNCHANGED <<idx, dir, error>>
    /\ UNCHANGED <<inputVars, processVars, outVars, runVars>>

\* _run_cmd_fasterq, one iteration of the while loop: one invocation of the
\* tool, which fails transiently or leaves its files, then the existence test
WhileIter ==
    /\ pc = "while"
    /\ LoopCond(retries)
    /\ \E fails \in BOOLEAN :
          /\ fails => flaky
          /\ dir' = RunTool(dir, acc, IF fails THEN {} ELSE tool[acc].kinds,
                            tool[acc].nlines)
          /\ result' = [acc |-> acc, attempt |-> calls + 1,
                        stderr |-> IF fails THEN "failed" ELSE "ok"]
    /\ retries' = NextRetries(retries, Downloaded(dir', acc))
    /\ calls' = calls + 1
    /\ firstOk' = IF firstOk = 0 /\ (acc \o DotFastq \in DOMAIN dir'
                                     \/ acc \o KFwd \o DotFastq \in DOMAIN dir')
                  THEN calls + 1 ELSE firstOk
    /\ UNCHANGED <<pc, idx, error>>
    /\ UNCHANGED <<inputVars, processVars, outVars, runVars>>

\* _run_cmd_fasterq, line 49: the loop is left and result is returned
WhileExit ==
    /\ pc = "while"
    /\ ~LoopCond(retries)
    /\ pc' = "check"
    /\ UNCHANGED <<idx, dir, error>>
    /\ UNCHANGED <<inputVars, fetchVars, processVars, outVars, runVars>>

\* _run_fasterq_dump_for_all, line 61-68: the test of the scratch directory;
\* when it passes, the locals of the finished call are dead
CheckListdir ==
    /\ pc = "check"
    /\ IF NothingDownloaded(dir, acc)
       THEN /\ pc' = "raised"
            /\ error' = ValueError(acc, result)
            /\ UNCHANGED dir
            /\ idx' = idx
            /\ UNCHANGED fetchVars
       ELSE /\ pc' = "for"
            /\ idx' = idx + 1
            /\ retries' = 0
            /\ result' = NoResult
            /\ calls' = 0
            /\ firstOk' = 0
            /\ UNCHANGED <<error, dir>>
    /\ UNCHANGED <<inputVars, processVars, outVars, runVars>>

\* get_sequences, line 206: gzip, then the renaming pass over a listing of
\* the scratch directory in any order
ProcessDownloaded ==
    /\ pc = "for"
    /\ idx > Len(sample_ids)
    /\ LET zipped == IF gzip_ok THEN Gzip(dir) ELSE dir
       IN  \E order \in Listings(zipped) :
              LET st == RenamePass(order, 1, [error |-> NoError, dir |-> zipped,
                                              single |-> <<>>, paired |-> <<>>])
              IN  /\ listed' = Range(order)
                  /\ IF st.error = NoError
                     THEN /\ pc' = "single"
                          /\ dir' = st.dir
                          /\ ls_single_files' = st.single
                          /\ ls_paired_files' = st.paired
                          /\ UNCHANGED error
                     ELSE /\ pc' = "raised"
                          /\ error' = st.error
                          /\ dir' = st.dir
                          /\ UNCHANGED <<ls_single_files, ls_paired_files>>
    /\ UNCHANGED idx
    /\ UNCHANGED <<inputVars, fetchVars, outVars, runVars>>

\* get_sequences, line 210-220: the single-end container
WriteSingle ==
    /\ pc = "single"
    /\ IF Len(ls_single_files) = 0
       THEN /\ casava_out_single' = (new_empty_name :> <<>>)
            /\ pc' = "double"
            /\ UNCHANGED <<error, dir>>
       ELSE LET w == Write2CasavaSingle(dir, ls_single_files)
            IN  IF w.error = NoError
                THEN /\ casava_out_single' = w.out
                     /\ pc' = "double"
                     /\ UNCHANGED <<error, dir>>
                ELSE /\ pc' = "raised"
                     /\ error' = w.error
                     /\ UNCHANGED dir
                     /\ UNCHANGED casava_out_single
    /\ UNCHANGED <<idx, casava_out_double>>
    /\ UNCHANGED <<inputVars, fetchVars, processVars, runVars>>

\* get_sequences, line 223-238: the paired-end container
WriteDouble ==
    /\ pc = "double"
    /\ IF Len(ls_paired_files) = 0
       THEN /\ casava_out_double' = (fwd_empty_name :> <<>>) @@ (rev_empty_name :> <<>>)
            /\ pc' = "exit"
            /\ UNCHANGED <<error, dir>>
       ELSE LET w == Write2CasavaDouble(dir, ls_paired_files)
            IN  IF w.error = NoError
                THEN /\ casava_out_double' = w.out
                     /\ pc' = "exit"
                     /\ UNCHANGED <<error, dir>>
                ELSE /\ pc' = "raised"
                     /\ error' = w.error
                     /\ UNCHANGED dir
                     /\ UNCHANGED casava_out_double
    /\ UNCHANGED <<idx, casava_out_single>>
    /\ UNCHANGED <<inputVars, fetchVars, processVars, runVars>>

\* get_sequences, line 240: the with block is left, which removes the
\* scratch directory, and the two containers are returned
Return ==
    /\ pc = "exit"
    /\ pc' = "done"
    /\ dir' = EmptyDir
    /\ UNCHANGED <<idx, error>>
    /\ UNCHANGED <<inputVars, fetchVars, processVars, outVars, runVars>>

\* an exception leaves the with block of get_sequences, which removes the
\* scratch directory; nothing is returned
Unwind ==
    /\ pc = "raised"
    /\ pc' = "failed"
    /\ dir' = EmptyDir
    /\ UNCHANGED <<idx, error>>
    /\ UNCHANGED <<inputVars, fetchVars, processVars, outVars, runVars>>

Next ==
    \/ ForNext
    \/ WhileIter
    \/ WhileExit
    \/ CheckListdir
    \/ ProcessDownloaded
    \/ WriteSingle
    \/ WriteDouble
    \/ Return
    \/ Unwind

Spec == Init /\ [][Next]_vars

-----------------------------------------------------------------------------
(* A second run on a permutation of the list, the tool behaving the same *)

\* what get_sequences gives its caller: a failure, or the names in the two
\* containers
Outcome ==
    IF pc = "failed" THEN [failed |-> TRUE, single |-> {}, double |-> {}]
    ELSE [failed |-> FALSE, single |-> DOMAIN casava_out_single,
          double |-> DOMAIN casava_out_double]

Rerun ==
    /\ pc \in {"done", "failed"}
    /\ run = 1
    /\ run' = 2
    /\ prev' = Outcome
    /\ \E p \in Orderings(DOMAIN sample_ids) :
          sample_ids' = [k \in DOMAIN sample_ids |-> sample_ids[p[k]]]
    /\ pc' = "for"
    /\ idx' = 1
    /\ retries' = 0
    /\ result' = NoResult
    /\ calls' = 0
    /\ firstOk' = 0
    /\ dir' = EmptyDir
    /\ listed' = {}
    /\ ls_single_files' = <<>>
    /\ ls_paired_files' = <<>>
    /\ casava_out_single' = EmptyDir
    /\ casava_out_double' = EmptyDir
    /\ error' = NoError
    /\ UNCHANGED <<general_retries, tool, flaky, gzip_ok>>

\* the tool never fails transiently and gzip works: the two runs differ in
\* the order of the list only
InitPerm == InitWith(IdLists(MaxIds), 0..MaxRetries, {FALSE}, {TRUE}, OneRecord)

NextPerm == Next \/ Rerun

SpecPerm == InitPerm /\ [][NextPerm]_vars

-----------------------------------------------------------------------------
(* One accession, files of any number of lines *)

InitRecords == InitWith({<<S1>>}, {0}, {FALSE}, {TRUE}, 0..MaxLines)

SpecRecords == InitRecords /\ [][Next]_vars

-----------------------------------------------------------------------------
(* Properties *)

\* the strings a with s = a \o suffix (at most one)
Stems(s, suffix) ==
    {SubSeq(s, 1, k) : k \in {j \in 0..Len(s) : s = SubSeq(s, 1, j) \o suffix}}

\* the number of newline characters of a file
NewLines(raw) == Cardinality({k \in DOMAIN raw : raw[k] = 10})

Min(a, b) == IF a <= b THEN a ELSE b

C3_ContainersNonEmpty ==
    pc = "done" =>
        /\ casava_out_single # EmptyDir
        /\ casava_out_double # EmptyDir
        /\ IF ls_single_files = <<>>
           THEN DOMAIN casava_out_single = {xxx \o CasavaR1}
           ELSE /\ DOMAIN casava_out_single = Range(ls_single_files)
                /\ xxx \o CasavaR1 \notin DOMAIN casava_out_single
        /\ IF ls_paired_files = <<>>
           THEN DOMAIN casava_out_double = {xxx \o CasavaR1, xxx \o CasavaR2}
           ELSE /\ DOMAIN casava_out_double = Range(ls_paired_files)
                /\ DOMAIN casava_out_double \cap {xxx \o CasavaR1, xxx \o CasavaR2} = {}

\* C3 witness: get_sequences has returned with single-end files only
C3_Witness ==
    /\ pc = "done"
    /\ ls_single_files # <<>>
    /\ ls_paired_files = <<>>

\* C4: the renaming pass classifies every compressed file by suffix: a name
\* <acc>_1.fastq.gz becomes <acc>_00_L001_R1_001.fastq.gz, listed as paired;
\* <acc>_2.fastq.gz becomes <acc>_00_L001_R2_001.fastq.gz, listed as paired;
\* any other <acc>.fastq.gz becomes <acc>_00_L001_R1_001.fastq.gz, listed as
\* single; a name that does not end in .fastq.gz makes the pass fail.
C4_Classification ==
    /\ pc \in {"single", "double", "exit"} =>
          /\ \A f \in listed :
                /\ f \notin DOMAIN dir
                /\ \A a \in Stems(f, Fwd_fastq_gz) :
                      /\ a \o CasavaR1 \in Range(ls_paired_files)
                      /\ a \o CasavaR1 \in DOMAIN dir
                /\ \A a \in Stems(f, Rev_fastq_gz) :
                      /\ a \o CasavaR2 \in Range(ls_paired_files)
                      /\ a \o CasavaR2 \in DOMAIN dir
                /\ Stems(f, Fwd_fastq_gz) \cup Stems(f, Rev_fastq_gz) = {} =>
                      /\ Stems(f, fastq_gz) # {}
                      /\ \A a \in Stems(f, fastq_gz) :
                            /\ a \o CasavaR1 \in Range(ls_single_files)
                            /\ a \o CasavaR1 \in DOMAIN dir
          /\ Len(ls_paired_files) =
                Cardinality({f \in listed : Stems(f, Fwd_fastq_gz) \cup Stems(f, Rev_fastq_gz) # {}})
          /\ Len(ls_single_files) + Len(ls_paired_files) = Cardinality(listed)
    /\ (\E f \in listed : Stems(f, fastq_gz) = {}) =>
          /\ pc \in {"raised", "failed"}
          /\ error.type = "AttributeError"

\* C4 witness: the pass has renamed a single-end file and the two files of a
\* pair
C4_Witness ==
    /\ pc = "single"
    /\ {S1 \o fastq_gz, S10 \o Fwd_fastq_gz, S10 \o Rev_fastq_gz} \subseteq listed

\* C4 witness of the failure: the pass has met a name without .fastq.gz
C4_WitnessFail ==
    /\ pc = "raised"
    /\ S1 \o DotFastq \in listed

\* C5: the order of the accession list is irrelevant: a run on a
\* permutation of the list, the tool behaving the same for each accession,
\* has the same outcome as the run on the list.
C5_OrderIrrelevant ==
    (run = 2 /\ pc \in {"done", "failed"}) => Outcome = prev

\* the records of a scratch file and of the file written from it
SameRecords(out, f) ==
    /\ ~ReadFastqSeqs(out[f]).raised
    /\ ~ReadFastqSeqs(dir[f]).raised
    /\ ReadFastqSeqs(out[f]).tuples = ReadFastqSeqs(dir[f]).tuples

\* the file written holds the first m records of its scratch file
FirstRecords(out, f, m) ==
    /\ ~ReadFastqSeqs(out[f]).raised
    /\ Len(ReadFastqSeqs(dir[f]).tuples) >= m
    /\ ReadFastqSeqs(out[f]).tuples = SubSeq(ReadFastqSeqs(dir[f]).tuples, 1, m)

C7_ReaderPads ==
    pc \in {"single", "double"} =>
        \A f \in Range(ls_single_files) \cup Range(ls_paired_files) :
            NewLines(dir[f]) % 4 # 0 =>
                /\ ~ReadFastqSeqs(dir[f]).raised
                /\ Len(ReadFastqSeqs(dir[f]).tuples) = NewLines(dir[f]) \div 4 + 1

\* the list consists of adjacent pairs <acc>_00_L001_R1_001.fastq.gz,
\* <acc>_00_L001_R2_001.fastq.gz
AdjacentPairs(s) ==
    /\ Len(s) % 2 = 0
    /\ \A k \in 1..(Len(s) \div 2) :
          /\ Stems(s[2 * k - 1], CasavaR1) # {}
          /\ \A a \in Stems(s[2 * k - 1], CasavaR1) : s[2 * k] = a \o CasavaR2

\* the list in ascending order of its names
Ascending(s) == \A k \in 1..(Len(s) - 1) : StrLess(s[k], s[k + 1])

\* C8: a pairing mismatch is fatal: when the sorted list of paired names has
\* an odd count or some positions 2k, 2k+1 that are not the R1 and R2 of one
\* accession, the paired writer fails instead of returning.
C8_MismatchFatal ==
    (pc = "exit" /\ ls_paired_files # <<>>) =>
        AdjacentPairs(Sorted(ls_paired_files))

\* C9 as claimed: in every run that reaches the paired writer, the sorted
\* list of paired names consists of adjacent same-accession R1/R2 pairs.
C9_PairsAlways ==
    (pc = "double" /\ ls_paired_files # <<>>) =>
        AdjacentPairs(FilesSorted(ls_paired_files))

\* for every accession the tool left both <acc>_1.fastq and <acc>_2.fastq or
\* neither
MatesComplete ==
    \A f \in listed :
        /\ \A a \in Stems(f, Fwd_fastq_gz) : a \o Rev_fastq_gz \in listed
        /\ \A a \in Stems(f, Rev_fastq_gz) : a \o Fwd_fastq_gz \in listed

\* C9, amended: in every run that reaches the paired writer and in which the
\* tool left both or neither of <acc>_1.fastq and <acc>_2.fastq for every
\* accession (accessions being made of letters and digits), the list the
\* writer iterates over is in ascending order and consists of adjacent
\* same-accession R1/R2 pairs, also when one accession is a prefix of
\* another.
C9_PairsWhenMatesComplete ==
    (pc = "double" /\ ls_paired_files # <<>> /\ MatesComplete) =>
        /\ AdjacentPairs(FilesSorted(ls_paired_files))
        /\ Ascending(FilesSorted(ls_paired_files))

\* C9 witness: the paired writer is reached with the pairs of S1 and of S10
C9_Witness ==
    /\ pc = "double"
    /\ MatesComplete
    /\ Range(ls_paired_files) =
          {S1 \o CasavaR1, S1 \o CasavaR2, S10 \o CasavaR1, S10 \o CasavaR2}

\* C10: the renaming pass never overwrites a file: the directory holds as
\* many files after the pass as before it, and no name is in both the
\* single-end and the paired-end list.
C10_NoOverwrite ==
    pc = "single" =>
        /\ Cardinality(DOMAIN dir) = Cardinality(listed)
        /\ Range(ls_single_files) \cap Range(ls_paired_files) = {}

====
